---- MODULE Spec2Model ----
(***************************************************************************)
(* The GFF decoder of src/aurora/gfffile.cpp: GFFFile (header, struct      *)
(* array, list array, offset map) and GFFStruct (lazy field map, typed     *)
(* accessors) over one shared seekable byte stream.                        *)
(*                                                                         *)
(* Representation of machine integers.  TLC's integers are 32-bit signed,  *)
(* so a uint32 is carried as a pair <<hi, lo>> of 16-bit limbs and a       *)
(* 64-bit value as four limbs <<l3, l2, l1, l0>> (most significant first); *)
(* signed and unsigned 64-bit values share the bit pattern, as in C++.     *)
(* Header words, struct words and stream positions of the files generated  *)
(* below are all smaller than 2^31 and are carried as naturals.            *)
(***************************************************************************)
EXTENDS Integers, Sequences, FiniteSets, TLC

\* Largest list-indices table (in 32-bit words) of the generated files.
MaxWords == 4

\* ------------------------------------------------------------------ words

U32(n) == <<n \div 65536, n % 65536>>

ToNat(w) == w[1] * 65536 + w[2]

\* uint32 addition: wraps modulo 2^32.
Add32(a, b) ==
  LET lo == a[2] + b[2]
      hi == a[1] + b[1] + (lo \div 65536)
  IN  <<hi % 65536, lo % 65536>>

\* unsigned comparison a > b.
UGt(a, b) == a[1] > b[1] \/ (a[1] = b[1] /\ a[2] > b[2])

ULt(a, b) == UGt(b, a)

\* a / 4 on a uint32.
Div4(w) == <<w[1] \div 4, ((w[1] % 4) * 65536 + w[2]) \div 4>>

kNoList == <<65535, 65535>>

\* Little-endian bytes of a uint32.
LE32(w) == <<w[2] % 256, w[2] \div 256, w[1] % 256, w[1] \div 256>>

RECURSIVE Concat(_)
Concat(ss) == IF ss = <<>> THEN <<>> ELSE Head(ss) \o Concat(Tail(ss))

Zeros(n) == [k \in 1..n |-> 0]

\* ------------------------------------------------------------------ state

VARIABLES
  _stream,            \* GFFFile::_stream: [open, data, pos]
  _id, _version,      \* AuroraBase::_id, _version (4-byte tags)
  _header,            \* GFFFile::_header
  _structs,           \* GFFFile::_structs: [_id, _fieldIndex, _fieldCount, _fields]
  _lists,             \* GFFFile::_lists: lists of struct-array indices
  _listOffsetToIndex, \* GFFFile::_listOffsetToIndex
  rawLists, i, listCount, listIndex,   \* locals of GFFFile::readLists
  pc,                 \* where the container is: new, counting, converting, loaded, ...
  error,              \* message of the exception that ended the load
  call                \* the last accessor call and its outcome

vars == <<_stream, _id, _version, _header, _structs, _lists, _listOffsetToIndex,
          rawLists, i, listCount, listIndex, pc, error, call>>

\* ----------------------------------------------------------------- stream

ByteAt(data, p) == IF p < Len(data) THEN data[p + 1] ELSE 0

readUint32LE(data, p) ==
  <<ByteAt(data, p + 3) * 256 + ByteAt(data, p + 2),
    ByteAt(data, p + 1) * 256 + ByteAt(data, p)>>

readBytes(data, p, n) == [k \in 1..n |-> ByteAt(data, p + k - 1)]

kVersion32 == <<86, 51, 46, 50>>
kVersion33 == <<86, 51, 46, 51>>

\* ------------------------------------------------------------------ files

kFieldTypes ==
  <<"Byte", "Char", "Uint16", "Sint16", "Uint32", "Sint32", "Uint64", "Sint64",
    "Float", "Double", "ExoString", "ResRef", "LocString", "Void", "Struct",
    "List", "Orientation", "Vector", "StrRef">>

\* The code of an enumerator; "Unknown" stands for a code past the last one.
TypeCode(name) ==
  IF name = "Unknown"
    THEN Len(kFieldTypes)
    ELSE (CHOOSE k \in 1..Len(kFieldTypes) : kFieldTypes[k] = name) - 1

\* (FieldType) type: the enumerator of a type code, or the code itself when
\* it names no enumerator.
FieldTypeOf(code) ==
  IF code[1] = 0 /\ code[2] < Len(kFieldTypes)
    THEN kFieldTypes[code[2] + 1]
    ELSE "Unknown"

\* A 16-byte label record: the text, zero padded.
LabelBytes(text) == text \o Zeros(16 - Len(text))

HeaderSize == 8 + 12 * 4

\* The bytes of a GFF file with the given tables, laid out in the order
\* struct, field, label, field data, field indices, list indices.  c.labelCount
\* and c.fieldCount are what the header claims.
FileOf(c) ==
  LET structOffset       == HeaderSize
      fieldOffset        == structOffset + 12 * Len(c.structs)
      labelOffset        == fieldOffset + 12 * Len(c.fields)
      fieldDataOffset    == labelOffset + 16 * Len(c.labels)
      fieldIndicesOffset == fieldDataOffset + Len(c.fieldData)
      listIndicesOffset  == fieldIndicesOffset + 4 * Len(c.fieldIndices)
      hdr == <<structOffset, Len(c.structs), fieldOffset, c.fieldCount,
               labelOffset, c.labelCount, fieldDataOffset, Len(c.fieldData),
               fieldIndicesOffset, 4 * Len(c.fieldIndices),
               listIndicesOffset, 4 * Len(c.lists)>>
  IN  c.tag \o c.version
      \o Concat([k \in 1..12 |-> LE32(U32(hdr[k]))])
      \o Concat([k \in 1..Len(c.structs) |->
                   LE32(U32(c.structs[k][1])) \o LE32(U32(c.structs[k][2]))
                   \o LE32(U32(c.structs[k][3]))])
      \o Concat([k \in 1..Len(c.fields) |->
                   LE32(U32(TypeCode(c.fields[k][1]))) \o LE32(U32(c.fields[k][2]))
                   \o LE32(c.fields[k][3])])
      \o Concat([k \in 1..Len(c.labels) |-> LabelBytes(c.labels[k])])
      \o c.fieldData
      \o Concat([k \in 1..Len(c.fieldIndices) |-> LE32(U32(c.fieldIndices[k]))])
      \o Concat([k \in 1..Len(c.lists) |-> LE32(c.lists[k])])

\* ------------------------------------------------------------ GFFFile::load

NoCall ==
  [op |-> "none", strct |-> 0, field |-> <<>>, outcome |-> "none",
   def |-> <<>>, value |-> <<>>, nread |-> 0, labels |-> {}]

\* GFFFile::Header::read at position p.
HeaderRead(data, p) ==
  LET w(k) == ToNat(readUint32LE(data, p + 4 * k)) IN
  [structOffset       |-> w(0),  structCount       |-> w(1),
   fieldOffset        |-> w(2),  fieldCount        |-> w(3),
   labelOffset        |-> w(4),  labelCount        |-> w(5),
   fieldDataOffset    |-> w(6),  fieldDataCount    |-> w(7),
   fieldIndicesOffset |-> w(8),  fieldIndicesCount |-> w(9),
   listIndicesOffset  |-> w(10), listIndicesCount  |-> w(11)]

HeaderClear == HeaderRead(<<>>, 0)

\* GFFStruct::GFFStruct: three words at the stream's position, no fields yet.
NewStruct(data, p) ==
  [_id         |-> ToNat(readUint32LE(data, p)),
   _fieldIndex |-> ToNat(readUint32LE(data, p + 4)),
   _fieldCount |-> ToNat(readUint32LE(data, p + 8)),
   _fields     |-> <<>>]

\* GFFFile::readStructs: structCount records from the position the header
\* read left the stream at (there is no seek to structOffset).
readStructs(data, p, count) == [k \in 1..count |-> NewStruct(data, p + 12 * (k - 1))]

ClosedStream == [open |-> FALSE, data |-> <<>>, pos |-> 0]

\* The catch blocks of GFFFile::load: clear(), then rethrow.
LoadFails(msg) ==
  /\ _stream' = ClosedStream
  /\ _structs' = <<>>
  /\ pc' = "failed"
  /\ error' = msg

\* GFFFile::GFFFile and GFFFile::load up to the first loop of readLists:
\* readHeader, the id and version checks, Header::read, readStructs, and the
\* read of the raw list-indices words.
Load(id) ==
  /\ pc = "new"
  /\ LET data == _stream.data
         hid  == readBytes(data, 0, 4)
         ver  == readBytes(data, 4, 4)
         h    == HeaderRead(data, 8)
         n    == h.listIndicesCount \div 4
     IN  /\ _id' = hid
         /\ _version' = ver
         /\ IF hid # id
              THEN /\ LoadFails("GFF has invalid ID")
                   /\ UNCHANGED <<_header, rawLists>>
              ELSE IF ver # kVersion32 /\ ver # kVersion33
              THEN /\ LoadFails("Unsupported GFF file version")
                   /\ UNCHANGED <<_header, rawLists>>
              ELSE /\ _header' = h
                   /\ _structs' = readStructs(data, HeaderSize, h.structCount)
                   /\ rawLists' = [k \in 1..n |->
                                     readUint32LE(data, h.listIndicesOffset + 4 * (k - 1))]
                   /\ _stream' = [_stream EXCEPT !.pos = h.listIndicesOffset + 4 * n]
                   /\ pc' = "counting"
                   /\ UNCHANGED error
  /\ UNCHANGED <<_lists, _listOffsetToIndex, i, listCount, listIndex, call>>

\* One iteration of the counting loop of GFFFile::readLists.  i + n is a
\* uint32 sum.  A scan that has counted more runs than the table has words
\* has come back to a word it already visited and goes on forever; it is
\* followed no further.
CountStep ==
  /\ pc = "counting"
  /\ i < Len(rawLists)
  /\ listCount <= Len(rawLists)
  /\ LET n == rawLists[i + 1] IN
     IF UGt(Add32(U32(i), n), U32(Len(rawLists)))
       THEN /\ LoadFails("List indices broken")
            /\ UNCHANGED <<i, listCount>>
       ELSE /\ i' = ToNat(Add32(U32(i), n)) + 1
            /\ listCount' = listCount + 1
            /\ UNCHANGED <<_stream, _structs, pc, error>>
  /\ UNCHANGED <<_id, _version, _header, _lists, _listOffsetToIndex, rawLists,
                 listIndex, call>>

\* The counting loop ends: _lists.resize(listCount),
\* _listOffsetToIndex.resize(rawLists.size(), 0xFFFFFFFF).
CountDone ==
  /\ pc = "counting"
  /\ i >= Len(rawLists)
  /\ _lists' = [k \in 1..listCount |-> <<>>]
  /\ _listOffsetToIndex' = [k \in 1..Len(rawLists) |-> kNoList]
  /\ i' = 0
  /\ listIndex' = 0
  /\ pc' = "converting"
  /\ UNCHANGED <<_stream, _id, _version, _header, _structs, rawLists, listCount,
                 error, call>>

\* A pointer read from outside a vector.
Wild == 0 - 1

\* _structs[w] for an index word w; the vector's operator[] is unchecked, so
\* an index past the end yields a wild pointer.
StructRef(w) == IF ULt(w, U32(Len(_structs))) THEN ToNat(w) ELSE Wild

\* Variant: the inner loop reads rawLists[i - 1] (the index is bumped after
\* the read instead of before it).
StructRefAtLate(k, g) == IF k < Len(rawLists) THEN StructRef(rawLists[k]) ELSE g

\* _structs[rawLists[k]] (k 0-based); g is what comes of a word read from
\* past the end of rawLists (any struct, or a wild pointer).
StructRefAt(k, g) == IF k < Len(rawLists) THEN StructRef(rawLists[k + 1]) ELSE g

\* One iteration of the conversion loop of GFFFile::readLists, its inner
\* loop included.  build is "debug" (assert compiled in) or "release".
\*  - the assertion fails: a debug build aborts; a release build goes on and
\*    reads index words from past the end of rawLists;
\*  - the assertion passes on a wrapped sum (n is far larger than the
\*    table): resize(n) asks for 8*n bytes and throws std::bad_alloc, which
\*    no handler of load catches, or the inner loop runs off the vector.
ConvertStep ==
  /\ pc = "converting"
  /\ i < Len(rawLists)
  /\ LET n     == rawLists[i + 1]
         i1    == i + 1
         sum   == Add32(U32(i1), n)
         small == n[1] = 0 /\ n[2] <= Len(rawLists) + 1
     IN
     /\ _listOffsetToIndex' = [_listOffsetToIndex EXCEPT ![i + 1] = U32(listIndex)]
     /\ \E build \in {"debug", "release"}, g \in (0..(Len(_structs) - 1)) \cup {Wild} :
          IF listIndex >= Len(_lists)
            THEN /\ pc' = "crashed"
                 /\ UNCHANGED <<_lists, i, listIndex>>
          ELSE IF UGt(sum, U32(Len(rawLists))) /\ build = "debug"
            THEN /\ pc' = "aborted"
                 /\ UNCHANGED <<_lists, i, listIndex>>
          ELSE IF ~small
            THEN /\ pc' \in {"bad_alloc", "crashed"}
                 /\ UNCHANGED <<_lists, i, listIndex>>
          ELSE /\ _lists' = [_lists EXCEPT ![listIndex + 1] =
                               [j \in 1..n[2] |-> StructRefAt(i1 + j - 1, g)]]
               /\ i' = i1 + n[2]
               /\ listIndex' = listIndex + 1
               /\ UNCHANGED pc
  /\ UNCHANGED <<_stream, _id, _version, _header, _structs, rawLists, listCount,
                 error, call>>

\* The conversion loop ends; load's check of _stream->err() passes (no read
\* of the generated files goes past the end of the stream).
ConvertDone ==
  /\ pc = "converting"
  /\ i >= Len(rawLists)
  /\ pc' = "loaded"
  /\ UNCHANGED <<_stream, _id, _version, _header, _structs, _lists,
                 _listOffsetToIndex, rawLists, i, listCount, listIndex, error, call>>

\* ---------------------------------------------------------------- GFFStruct
\* The methods of GFFStruct are operators on a machine state
\*   m = [structs, pos, exc, nread, labels]
\* (the struct array, the stream's position, the message of a thrown
\* exception or "", and two traces of the call: how many field records it
\* read and the label indices it read) over the stream's bytes.

Data == _stream.data

Machine == [structs |-> _structs, pos |-> _stream.pos, exc |-> "", nread |-> 0,
            labels |-> {}]

\* GFFStruct::Field::Field(FieldType, uint32).
Field(t, d) ==
  [type |-> t, data |-> d,
   extended |-> t \in {"Uint64", "Sint64", "Double", "ExoString", "ResRef",
                       "LocString", "Void", "Orientation", "Vector", "StrRef"}]

\* Common::readStringFixed on raw bytes: the text up to the first zero byte.
RECURSIVE Trim(_)
Trim(bytes) ==
  IF bytes = <<>> \/ Head(bytes) = 0 THEN <<>> ELSE <<Head(bytes)>> \o Trim(Tail(bytes))

readStringFixed(p, length) == Trim(readBytes(Data, p, length))

\* GFFStruct::readLabel: no check of index against labelCount.
readLabel(index) == readStringFixed(_header.labelOffset + index * 16, 16)

\* std::map::operator[] followed by assignment.
Put(f, k, v) == [x \in DOMAIN f \cup {k} |-> IF x = k THEN v ELSE f[x]]

\* GFFStruct::readField for struct s (0-based).
readField(m, s, index) ==
  IF index > _header.fieldCount
    THEN [m EXCEPT !.exc = "Field index out of range"]
    ELSE LET p     == _header.fieldOffset + index * 12
             type  == readUint32LE(Data, p)
             label == ToNat(readUint32LE(Data, p + 4))
             data  == readUint32LE(Data, p + 8)
         IN  [m EXCEPT !.structs[s + 1]._fields =
                          Put(@, readLabel(label), Field(FieldTypeOf(type), data)),
                       !.pos = _header.labelOffset + label * 16 + 16,
                       !.nread = @ + 1,
                       !.labels = @ \cup {label}]

\* The loop of GFFStruct::readFields over the indices read; a throw ends it.
RECURSIVE readEach(_, _, _)
readEach(m, s, indices) ==
  IF indices = <<>> \/ m.exc # ""
    THEN m
    ELSE readEach(readField(m, s, Head(indices)), s, Tail(indices))

\* GFFStruct::readFields with GFFStruct::readIndices.
readFields(m, s, index, count) ==
  IF index > _header.fieldIndicesCount
    THEN [m EXCEPT !.exc = "Field indices index out of range"]
    ELSE LET p       == _header.fieldIndicesOffset + index
             indices == [k \in 1..count |-> ToNat(readUint32LE(Data, p + 4 * (k - 1)))]
         IN  readEach([m EXCEPT !.pos = p + 4 * count], s, indices)

\* Variant: load without the guard, resolving on every call.
AlreadyLoadedNever(st) == FALSE

\* The guard of GFFStruct::load: if (!_fields.empty()) return.
AlreadyLoaded(st) == st._fields # <<>>

\* GFFStruct::load.
load(m, s) ==
  LET st == m.structs[s + 1] IN
  IF AlreadyLoaded(st)
    THEN m
    ELSE IF st._fieldCount = 1
    THEN readField(m, s, st._fieldIndex)
    ELSE IF st._fieldCount > 1
    THEN readFields(m, s, st._fieldIndex, st._fieldCount)
    ELSE m

\* Variant: no absolute seek, the relative seek starts where the stream is.
getFieldDataNoSeek(m) == m

\* GFFFile::getFieldData: seek to the start of the field-data table.
getFieldData(m) == [m EXCEPT !.pos = _header.fieldDataOffset]

\* GFFStruct::getData(const Field &): seek(field.data, SEEK_CUR) from there.
getData(m, f) ==
  LET d == getFieldData(m) IN [d EXCEPT !.pos = @ + ToNat(f.data)]

\* Results of a call: a return value, a thrown Common::Exception, or a failed
\* assert.
Ret(m, v)     == [m |-> m, outcome |-> "ok", value |-> v]
Throw(m, msg) == [m |-> m, outcome |-> "error", value |-> msg]
AssertFails(m) == [m |-> m, outcome |-> "assert", value |-> <<>>]

\* GFFStruct::getField: the field of that name, if there is one.
Has(m, s, name) == name \in DOMAIN m.structs[s + 1]._fields
Get(m, s, name) == m.structs[s + 1]._fields[name]

\* Variant: a missing field throws in the scalar accessors too.
DefaultThrows(m, def) == Throw(m, "No such field")

\* if (!f) return def.
Default(m, def) == Ret(m, def)

\* Variant: getStruct without its type test.
NotStructNever(f) == FALSE

\* if (f->type != kFieldTypeStruct) of GFFStruct::getStruct.
NotStruct(f) == f.type # "Struct"

\* 64-bit values as limbs.
ZeroU64 == <<0, 0, 0, 0>>
ZeroExt8(d)  == <<0, 0, 0, d[2] % 256>>
ZeroExt16(d) == <<0, 0, 0, d[2]>>
ZeroExt32(d) == <<0, 0, d[1], d[2]>>
SignExt8(d) ==
  IF d[2] % 256 >= 128 THEN <<65535, 65535, 65535, 65280 + (d[2] % 256)>>
                       ELSE <<0, 0, 0, d[2] % 256>>
SignExt16(d) == IF d[2] >= 32768 THEN <<65535, 65535, 65535, d[2]>> ELSE <<0, 0, 0, d[2]>>
SignExt32(d) == IF d[1] >= 32768 THEN <<65535, 65535, d[1], d[2]>> ELSE <<0, 0, d[1], d[2]>>

readUint64LE(p) ==
  LET lo == readUint32LE(Data, p)
      hi == readUint32LE(Data, p + 4)
  IN  <<hi[1], hi[2], lo[1], lo[2]>>

\* GFFStruct::hasField.
hasField(m0, s, name) ==
  LET m == load(m0, s) IN
  IF m.exc # "" THEN Throw(m, m.exc) ELSE Ret(m, Has(m, s, name))

\* GFFStruct::getChar; (char) f->data keeps the low 8 bits.
getChar(m0, s, name, def) ==
  LET m == load(m0, s) IN
  IF m.exc # "" THEN Throw(m, m.exc)
  ELSE IF ~Has(m, s, name) THEN Default(m, def)
  ELSE IF Get(m, s, name).type # "Char" THEN Throw(m, "Field is not a char type")
  ELSE Ret(m, Get(m, s, name).data[2] % 256)

\* The StrRef branch of getUint and getSint: the exception for size != 4 is
\* constructed and dropped (there is no throw), the next word is returned.
readStrRef(m, f) ==
  LET d == getData(m, f) IN
  Ret([d EXCEPT !.pos = @ + 8], ZeroExt32(readUint32LE(Data, d.pos + 4)))

\* GFFStruct::getUint.
getUint(m0, s, name, def) ==
  LET m == load(m0, s) IN
  IF m.exc # "" THEN Throw(m, m.exc)
  ELSE IF ~Has(m, s, name) THEN Default(m, def)
  ELSE LET f == Get(m, s, name) IN
    CASE f.type = "Byte"   -> Ret(m, ZeroExt8(f.data))
      [] f.type = "Uint16" -> Ret(m, ZeroExt16(f.data))
      [] f.type = "Uint32" -> Ret(m, ZeroExt32(f.data))
      [] f.type = "Char"   -> Ret(m, SignExt8(f.data))
      [] f.type = "Sint16" -> Ret(m, SignExt16(f.data))
      [] f.type = "Sint32" -> Ret(m, SignExt32(f.data))
      [] f.type \in {"Uint64", "Sint64"} ->
           LET d == getData(m, f) IN Ret([d EXCEPT !.pos = @ + 8], readUint64LE(d.pos))
      [] f.type = "StrRef" -> readStrRef(m, f)
      [] OTHER -> Throw(m, "Field is not an int type")

\* GFFStruct::getSint: every small type goes through (int8), (int16) or
\* (int32) before widening, the unsigned ones too.
getSint(m0, s, name, def) ==
  LET m == load(m0, s) IN
  IF m.exc # "" THEN Throw(m, m.exc)
  ELSE IF ~Has(m, s, name) THEN Default(m, def)
  ELSE LET f == Get(m, s, name) IN
    CASE f.type = "Byte"   -> Ret(m, SignExt8(f.data))
      [] f.type = "Uint16" -> Ret(m, SignExt16(f.data))
      [] f.type = "Uint32" -> Ret(m, SignExt32(f.data))
      [] f.type = "Char"   -> Ret(m, SignExt8(f.data))
      [] f.type = "Sint16" -> Ret(m, SignExt16(f.data))
      [] f.type = "Sint32" -> Ret(m, SignExt32(f.data))
      [] f.type \in {"Uint64", "Sint64"} ->
           LET d == getData(m, f) IN Ret([d EXCEPT !.pos = @ + 8], readUint64LE(d.pos))
      [] f.type = "StrRef" -> readStrRef(m, f)
      [] OTHER -> Throw(m, "Field is not an int type")

\* bool -> uint64 for the default of the nested getUint.
BoolU64(b) == IF b THEN <<0, 0, 0, 1>> ELSE ZeroU64

\* GFFStruct::getBool: load(), then getUint(field, def) != 0.
getBool(m0, s, name, def) ==
  LET m == load(m0, s)
      r == getUint(m, s, name, BoolU64(def))
  IN  IF m.exc # "" THEN Throw(m, m.exc)
      ELSE IF r.outcome = "ok" THEN [r EXCEPT !.value = (@ # ZeroU64)] ELSE r

\* GFFStruct::getDouble.  The IEEE decodings (convertIEEEFloat,
\* readIEEEDoubleLE) are carried as the tagged bit patterns they decode.
getDouble(m0, s, name, def) ==
  LET m == load(m0, s) IN
  IF m.exc # "" THEN Throw(m, m.exc)
  ELSE IF ~Has(m, s, name) THEN Default(m, def)
  ELSE LET f == Get(m, s, name) IN
    CASE f.type = "Float"  -> Ret(m, <<"float", f.data>>)
      [] f.type = "Double" ->
           LET d == getData(m, f) IN
           Ret([d EXCEPT !.pos = @ + 8], <<"double", readUint64LE(d.pos)>>)
      [] OTHER -> Throw(m, "Field is not a double type")

\* n IEEE floats read one after the other (readIEEEFloatLE).
readFloats(m, f, n) ==
  LET d == getData(m, f) IN
  Ret([d EXCEPT !.pos = @ + 4 * n],
      [k \in 1..n |-> <<"float", readUint32LE(Data, d.pos + 4 * (k - 1))>>])

\* GFFStruct::getVector (both overloads read three floats).  A missing
\* field leaves the outputs alone.
getVector(m0, s, name) ==
  LET m == load(m0, s) IN
  IF m.exc # "" THEN Throw(m, m.exc)
  ELSE IF ~Has(m, s, name) THEN Ret(m, <<>>)
  ELSE IF Get(m, s, name).type # "Vector" THEN Throw(m, "Field is not a vector type")
  ELSE readFloats(m, Get(m, s, name), 3)

\* GFFStruct::getOrientation (both overloads read four floats).
getOrientation(m0, s, name) ==
  LET m == load(m0, s) IN
  IF m.exc # "" THEN Throw(m, m.exc)
  ELSE IF ~Has(m, s, name) THEN Ret(m, <<>>)
  ELSE IF Get(m, s, name).type # "Orientation"
    THEN Throw(m, "Field is not an orientation type")
  ELSE readFloats(m, Get(m, s, name), 4)

\* A nested accessor call's result formatted by UString::sprintf(fmt, ...).
Sprintf(fmt, r) == IF r.outcome = "ok" THEN [r EXCEPT !.value = <<fmt, @>>] ELSE r

\* GFFStruct::getString.
getString(m0, s, name, def) ==
  LET m == load(m0, s) IN
  IF m.exc # "" THEN Throw(m, m.exc)
  ELSE IF ~Has(m, s, name) THEN Default(m, def)
  ELSE LET f == Get(m, s, name) IN
    CASE f.type = "ExoString" ->
           LET d      == getData(m, f)
               length == ToNat(readUint32LE(Data, d.pos))
           IN  Ret([d EXCEPT !.pos = @ + 4 + length],
                   <<"text", readStringFixed(d.pos + 4, length)>>)
      [] f.type = "ResRef" ->
           LET d      == getData(m, f)
               length == ByteAt(Data, d.pos)
           IN  Ret([d EXCEPT !.pos = @ + 1 + length],
                   <<"text", readStringFixed(d.pos + 1, length)>>)
      [] f.type \in {"Byte", "Uint16", "Uint32", "Uint64", "StrRef"} ->
           Sprintf("%lu", getUint(m, s, name, ZeroU64))
      [] f.type \in {"Char", "Sint16", "Sint32", "Sint64"} ->
           Sprintf("%ld", getSint(m, s, name, ZeroU64))
      [] f.type \in {"Float", "Double"} ->
           Sprintf("%lf", getDouble(m, s, name, <<"float", U32(0)>>))
      [] f.type = "Vector" -> Sprintf("%f/%f/%f", getVector(m, s, name))
      [] f.type = "Orientation" -> Sprintf("%f/%f/%f/%f", getOrientation(m, s, name))
      [] OTHER -> Throw(m, "Field is not a string(able) type")

\* LocString::readLocString on the sub-stream [pos, pos + size): the payload
\* is read whole and handed over as it is.
readLocString(p, size) == <<"locstring", readBytes(Data, p, size)>>

\* GFFStruct::getLocString.
getLocString(m0, s, name) ==
  LET m == load(m0, s) IN
  IF m.exc # "" THEN Throw(m, m.exc)
  ELSE IF ~Has(m, s, name) THEN Ret(m, <<>>)
  ELSE IF Get(m, s, name).type # "LocString"
    THEN Throw(m, "Field is not of a localized string type")
  ELSE LET d    == getData(m, Get(m, s, name))
           size == ToNat(readUint32LE(Data, d.pos))
       IN  Ret([d EXCEPT !.pos = @ + 4 + size], readLocString(d.pos + 4, size))

\* GFFStruct::getData(const Common::UString &): 0 for a missing field, else
\* a new stream of the blob's bytes.
getDataStream(m0, s, name) ==
  LET m == load(m0, s) IN
  IF m.exc # "" THEN Throw(m, m.exc)
  ELSE IF ~Has(m, s, name) THEN Ret(m, <<>>)
  ELSE IF Get(m, s, name).type # "Void" THEN Throw(m, "Field is not a data type")
  ELSE LET d    == getData(m, Get(m, s, name))
           size == ToNat(readUint32LE(Data, d.pos))
       IN  Ret([d EXCEPT !.pos = @ + 4 + size], <<"stream", readBytes(Data, d.pos + 4, size)>>)

\* GFFFile::getStruct(uint32): the index of the struct returned.
fileGetStruct(m, w) ==
  IF ULt(w, U32(Len(m.structs))) THEN Ret(m, ToNat(w)) ELSE AssertFails(m)

\* GFFFile::getList(uint32): the index in _lists of the list returned.
fileGetList(m, w) ==
  IF ~ULt(w, U32(Len(_listOffsetToIndex)))
    THEN AssertFails(m)
    ELSE LET k == _listOffsetToIndex[ToNat(w) + 1] IN
         IF ULt(k, U32(Len(_lists))) THEN Ret(m, ToNat(k)) ELSE AssertFails(m)

\* GFFStruct::getStruct.
getStruct(m0, s, name) ==
  LET m == load(m0, s) IN
  IF m.exc # "" THEN Throw(m, m.exc)
  ELSE IF ~Has(m, s, name) THEN Throw(m, "No such field")
  ELSE IF NotStruct(Get(m, s, name)) THEN Throw(m, "Field is not a struct type")
  ELSE fileGetStruct(m, Get(m, s, name).data)

\* GFFStruct::getList.
getList(m0, s, name) ==
  LET m == load(m0, s) IN
  IF m.exc # "" THEN Throw(m, m.exc)
  ELSE IF ~Has(m, s, name) THEN Throw(m, "No such field")
  ELSE IF Get(m, s, name).type # "List" THEN Throw(m, "Field is not a list type")
  ELSE fileGetList(m, Div4(Get(m, s, name).data))

\* ------------------------------------------------------------------ calls

\* The names a caller asks for: the labels of the label table, and one no
\* field carries.
kMissing == <<109>>

Names == {readLabel(k) : k \in 0..(_header.labelCount - 1)} \cup {kMissing}

StructIds == 0..(Len(_structs) - 1)

\* A call on struct s returned, threw or failed an assert with result r.  A
\* failed assert aborts a debug build; in a release build the call goes on
\* with a reference taken from outside the vector ("undefined").
Called(op, s, name, def, r) ==
  /\ \E o \in (IF r.outcome = "assert" THEN {"abort", "undefined"} ELSE {r.outcome}) :
       /\ call' = [op |-> op, strct |-> s, field |-> name, def |-> def, outcome |-> o,
                   value |-> r.value,
                   nread |-> r.m.nread, labels |-> r.m.labels]
       /\ pc' = IF o = "abort" THEN "aborted" ELSE pc
  /\ _structs' = r.m.structs
  /\ _stream' = [_stream EXCEPT !.pos = r.m.pos]
  /\ UNCHANGED <<_id, _version, _header, _lists, _listOffsetToIndex, rawLists, i,
                 listCount, listIndex, error>>

DefChar   == 65
DefUint   == <<0, 0, 0, 42>>
DefSint   == <<65535, 65535, 65535, 65535>>
DefDouble == <<"double", <<16368, 0, 0, 0>>>>
DefString == <<"text", <<100>>>>

HasField(s, name) ==
  pc = "loaded" /\ Called("hasField", s, name, <<>>, hasField(Machine, s, name))

GetChar(s, name) ==
  pc = "loaded" /\ Called("getChar", s, name, DefChar, getChar(Machine, s, name, DefChar))

GetUint(s, name) ==
  pc = "loaded" /\ Called("getUint", s, name, DefUint, getUint(Machine, s, name, DefUint))

GetSint(s, name) ==
  pc = "loaded" /\ Called("getSint", s, name, DefSint, getSint(Machine, s, name, DefSint))

GetBool(s, name, def) ==
  pc = "loaded" /\ Called("getBool", s, name, def, getBool(Machine, s, name, def))

GetDouble(s, name) ==
  pc = "loaded"
  /\ Called("getDouble", s, name, DefDouble, getDouble(Machine, s, name, DefDouble))

GetString(s, name) ==
  pc = "loaded"
  /\ Called("getString", s, name, DefString, getString(Machine, s, name, DefString))

GetLocString(s, name) ==
  pc = "loaded" /\ Called("getLocString", s, name, <<>>, getLocString(Machine, s, name))

GetData(s, name) ==
  pc = "loaded" /\ Called("getData", s, name, <<>>, getDataStream(Machine, s, name))

GetVector(s, name) ==
  pc = "loaded" /\ Called("getVector", s, name, <<>>, getVector(Machine, s, name))

GetOrientation(s, name) ==
  pc = "loaded" /\ Called("getOrientation", s, name, <<>>, getOrientation(Machine, s, name))

GetStruct(s, name) ==
  pc = "loaded" /\ Called("getStruct", s, name, <<>>, getStruct(Machine, s, name))

GetList(s, name) ==
  pc = "loaded" /\ Called("getList", s, name, <<>>, getList(Machine, s, name))

\* ------------------------------------------------------------------ inputs

kTagGFF == <<71, 70, 70, 32>>
kTagUTI == <<85, 84, 73, 32>>

Start(data) ==
  /\ _stream = [open |-> TRUE, data |-> data, pos |-> 0]
  /\ _id = <<>>
  /\ _version = <<>>
  /\ _header = HeaderClear
  /\ _structs = <<>>
  /\ _lists = <<>>
  /\ _listOffsetToIndex = <<>>
  /\ rawLists = <<>>
  /\ i = 0
  /\ listCount = 0
  /\ listIndex = 0
  /\ pc = "new"
  /\ error = ""
  /\ call = NoCall

\* List-indices tables: up to MaxWords words, each a small count or struct
\* index, at most one of them replaced by an index past the struct array or
\* by a count near 2^32.
SmallWords   == {U32(0), U32(1), U32(2)}
SpecialWords == {U32(3), <<65535, 65535>>, <<65535, 65534>>}

\* The table of the specification's example: [2, 0, 1, 1, 2].
ExampleTable == <<U32(2), U32(0), U32(1), U32(1), U32(2)>>

Tables ==
  UNION {[1..n -> SmallWords]
           \cup {[t EXCEPT ![k] = w] : t \in [1..n -> SmallWords], k \in 1..n,
                                       w \in SpecialWords}
         : n \in 0..MaxWords}
  \cup {ExampleTable}

ListLabel(p) == <<108, 48 + p>>

\* Three structs; the top-level one has a list field "l<p>" for every word
\* offset p < MaxWords, with inline data 4 * p.
ListFile(t) ==
  FileOf([tag |-> kTagGFF, version |-> kVersion32,
          structs |-> <<<<0, 0, MaxWords>>, <<1, 0, 0>>, <<2, 0, 0>>>>,
          fields |-> [k \in 1..MaxWords |-> <<"List", k - 1, U32(4 * (k - 1))>>],
          fieldCount |-> MaxWords,
          labels |-> [k \in 1..MaxWords |-> ListLabel(k - 1)],
          labelCount |-> MaxWords,
          fieldData |-> <<>>,
          fieldIndices |-> [k \in 1..MaxWords |-> k - 1],
          lists |-> t])

InitLists == \E t \in Tables : Start(ListFile(t))

LoadSteps ==
  \/ \E id \in {kTagGFF, kTagUTI} : Load(id)
  \/ CountStep
  \/ CountDone
  \/ ConvertStep
  \/ ConvertDone

NextLists ==
  \/ LoadSteps
  \/ \E s \in StructIds, name \in Names : GetList(s, name)

\* Loads of the list tables, then getList calls.
SpecLists == InitLists /\ [][NextLists]_vars
\* Field-data table of the field files, as little-endian words:
\*   offset 0: 4, 2, "hi\0\0", 7, and four more words.
\* An extended field at offset 0 finds a size or length of 4, at offset 4 a
\* size or length of 2.
FieldDataWords ==
  <<U32(4), U32(2), <<0, 26984>>, U32(7), <<4660, 22136>>, <<65535, 65534>>,
    U32(9), U32(0)>>

FieldData == Concat([k \in 1..Len(FieldDataWords) |-> LE32(FieldDataWords[k])])

\* Inline words of the small integer types: one below every sign bit, and
\* one with each of bit 7, bit 15, bit 31 and all bits set.
IntWords == {U32(65), U32(128), U32(32768), <<32768, 0>>, <<65535, 65535>>}

\* The field records tried as field 0 ("a") of the top-level struct.
TypedFields ==
  ({"Byte", "Char", "Uint16", "Sint16", "Uint32", "Sint32"} \X IntWords)
  \cup ({"Uint64", "Sint64", "Double", "ExoString", "ResRef", "LocString", "Void",
         "Orientation", "Vector", "StrRef"} \X {U32(0), U32(4)})
  \cup ({"Struct"} \X {U32(0), U32(1), U32(5)})
  \cup ({"List"} \X {U32(0), U32(4), U32(12), U32(100)})
  \cup ({"Float", "Unknown"} \X {<<16256, 0>>})

kLabelA == <<97>>
kLabelB == <<98>>
kLabelC == <<99>>

\* Two structs over the list table [2, 0, 1, 1, 1].  Struct 0 has the two
\* fields named by the first two field indices: field 0 ("a") and field 1
\* ("b", a uint64 at field-data offset 8).  Struct 1 is shape = <<field
\* index, field count>>.  Field 2 carries label index 2 ("c"); labelCount is
\* what the header says of the three labels.  The field indices are
\* 0, 1, 2, 9: the last one names no field.
FieldFile(f0, shape, labelCount) ==
  FileOf([tag |-> kTagGFF, version |-> kVersion32,
          structs |-> <<<<0, 0, 2>>, <<1, shape[1], shape[2]>>>>,
          fields |-> <<<<f0[1], 0, f0[2]>>, <<"Uint64", 1, U32(8)>>,
                       <<"StrRef", 2, U32(0)>>>>,
          fieldCount |-> 3,
          labels |-> <<kLabelA, kLabelB, kLabelC>>,
          labelCount |-> labelCount,
          fieldData |-> FieldData,
          fieldIndices |-> <<0, 1, 2, 9>>,
          lists |-> <<U32(2), U32(0), U32(1), U32(1), U32(1)>>])

\* Shapes of struct 1: one field given directly (1 or 2), no field, the index one
\* past the field table (3), an index out of range (4), two fields of which
\* the second index is out of range (byte 8 of the field indices: 2, 9),
\* two of which the first is (byte 12), and a field-indices offset out of
\* range.
Shapes == {<<2, 1>>, <<0, 0>>, <<3, 1>>, <<4, 1>>, <<8, 2>>, <<12, 2>>, <<100, 2>>}

Init ==
  \/ \E f0 \in TypedFields : Start(FieldFile(f0, <<1, 1>>, 2))
  \/ \E shape \in Shapes, labelCount \in {2, 3} :
       Start(FieldFile(<<"Uint32", U32(65)>>, shape, labelCount))

Next ==
  \/ LoadSteps
  \/ \E s \in StructIds, name \in Names :
       \/ HasField(s, name)
       \/ GetChar(s, name)
       \/ GetUint(s, name)
       \/ GetSint(s, name)
       \/ \E def \in BOOLEAN : GetBool(s, name, def)
       \/ GetDouble(s, name)
       \/ GetString(s, name)
       \/ GetLocString(s, name)
       \/ GetData(s, name)
       \/ GetVector(s, name)
       \/ GetOrientation(s, name)
       \/ GetStruct(s, name)
       \/ GetList(s, name)

\* Loads of the field files, then any accessor calls.
Spec == Init /\ [][Next]_vars

\* ----------------------------------------------------------------- claims

\* The decoding rule of the list-indices table, scanning from word p: the
\* runs as <<start word, index words>>.
RECURSIVE RunsFrom(_, _)
RunsFrom(t, p) ==
  IF p >= Len(t)
    THEN <<>>
    ELSE LET n == t[p + 1][2] IN
         <<[start |-> p, items |-> [j \in 1..n |-> t[p + 1 + j]]]>>
           \o RunsFrom(t, p + n + 1)

\* From word p on, every run is a count n followed by n words that index
\* the array of nstructs structs, and the last run ends with the table.
RECURSIVE WellFormedFrom(_, _, _)
WellFormedFrom(t, p, nstructs) ==
  \/ p = Len(t)
  \/ /\ p < Len(t)
     /\ t[p + 1][1] = 0
     /\ p + 1 + t[p + 1][2] <= Len(t)
     /\ \A j \in 1..t[p + 1][2] : ULt(t[p + 1 + j], U32(nstructs))
     /\ WellFormedFrom(t, p + t[p + 1][2] + 1, nstructs)

\* C1: after a successful load over a well-formed list-indices table, _lists
\* holds one list per run in scan order with the structs the run names,
\* _listOffsetToIndex maps each run's first word to the run's number and
\* every other word to 0xFFFFFFFF, and getList on a list field whose inline
\* data is 4 * (a run's first word) returns that run's list.
C1_ListsDecoded ==
  (pc \in {"loaded"} /\ WellFormedFrom(rawLists, 0, _header.structCount)) =>
    LET runs == RunsFrom(rawLists, 0) IN
    /\ _lists = [k \in 1..Len(runs) |->
                   [j \in 1..Len(runs[k].items) |-> ToNat(runs[k].items[j])]]
    /\ _listOffsetToIndex =
         [q \in 1..Len(rawLists) |->
            IF \E k \in 1..Len(runs) : runs[k].start = q - 1
              THEN U32((CHOOSE k \in 1..Len(runs) : runs[k].start = q - 1) - 1)
              ELSE kNoList]
    /\ \A k \in 1..Len(runs) :
         (/\ call.op = "getList"
          /\ call.field \in DOMAIN _structs[call.strct + 1]._fields
          /\ _structs[call.strct + 1]._fields[call.field]
               = Field("List", U32(4 * runs[k].start)))
         => (call.outcome = "ok" /\ call.value = k - 1)

\* C1 witness: the example table over three structs is loaded and getList
\* at byte offset 12 has returned the list [struct2].
C1_Witness ==
  /\ pc = "loaded"
  /\ rawLists = ExampleTable
  /\ _lists = <<<<0, 1>>, <<2>>>>
  /\ call.op = "getList" /\ call.strct = 0 /\ call.field = ListLabel(3)
  /\ call.outcome = "ok"
  /\ _lists[call.value + 1] = <<2>>

\* The first run of the scan from word p whose count n has p + n greater
\* than the table's word count (in the naturals): <<that run's number, TRUE>>,
\* or <<-, FALSE>> when there is none.
RECURSIVE BrokenRun(_, _, _)
BrokenRun(t, p, k) ==
  IF p >= Len(t)
    THEN <<k, FALSE>>
    ELSE IF t[p + 1][1] # 0 \/ p + t[p + 1][2] > Len(t)
    THEN <<k, TRUE>>
    ELSE BrokenRun(t, p + t[p + 1][2] + 1, k + 1)

\* C2: a table with a run at word p whose count n has p + n > word count
\* never gets past that run: the counting pass has counted no more than the
\* runs before it, and the load ends nowhere but in the format error.
C2_BrokenRunFailsLoad ==
  LET b == BrokenRun(rawLists, 0, 0) IN
  b[2] => /\ pc \in {"new", "counting", "failed"}
          /\ pc = "counting" => listCount <= b[1]
          /\ pc = "failed" => error = "List indices broken"

\* The fields of the struct the last call was made on, and the field it
\* asked for.
CallFields == _structs[call.strct + 1]._fields
CallHas    == call.op # "none" /\ call.field \in DOMAIN CallFields
CallField  == CallFields[call.field]

\* The last call ended in an exception of GFFStruct::load.
LoadThrew ==
  /\ call.outcome = "error"
  /\ call.value \in {"Field index out of range", "Field indices index out of range"}

\* C3: every struct's field map is empty when the load finishes; it changes
\* only in an accessor call on that struct, and only from empty; a call on a
\* struct whose map is populated reads no field record.
C3_CacheWrittenOnce ==
  [][/\ (pc # "loaded" /\ pc' = "loaded") =>
          \A k \in DOMAIN _structs' : _structs'[k]._fields = <<>>
     /\ pc = "loaded" =>
          \A k \in DOMAIN _structs :
            /\ _structs'[k]._fields # _structs[k]._fields =>
                 (_structs[k]._fields = <<>> /\ call'.strct = k - 1)
            /\ (_structs[k]._fields # <<>> /\ call'.strct = k - 1) =>
                 call'.nread = 0]_vars

\* C3 witness: a call on the populated top-level struct read no field
\* record, and struct 1 is still unresolved.
C3_Witness ==
  /\ pc = "loaded"
  /\ call.op = "getUint" /\ call.strct = 0 /\ call.nread = 0
  /\ DOMAIN _structs[1]._fields = {kLabelA, kLabelB}
  /\ _structs[2]._fields = <<>>

\* C4: for a label absent from the struct's resolved fields, getChar,
\* getUint, getSint, getBool, getDouble and getString return the caller's
\* default, and getStruct and getList throw "No such field".
C4_MissingLabel ==
  (call.op # "none" /\ ~CallHas /\ ~LoadThrew) =>
    /\ call.op \in {"getChar", "getUint", "getSint", "getBool", "getDouble", "getString"}
         => (call.outcome = "ok" /\ call.value = call.def)
    /\ call.op \in {"getStruct", "getList"}
         => (call.outcome = "error" /\ call.value = "No such field")

\* C4 witness: getUint of the missing label returned the default 42.
C4_Witness ==
  /\ call.op = "getUint" /\ call.field = kMissing
  /\ CallFields # <<>>
  /\ call.outcome = "ok" /\ call.value = <<0, 0, 0, 42>>

IntTypes == {"Byte", "Char", "Uint16", "Sint16", "Uint32", "Sint32", "Uint64",
             "Sint64", "StrRef"}

\* The accessor op does not accept a field of type t.
Rejects(op, t) ==
  CASE op = "getChar"                           -> t # "Char"
    [] op \in {"getUint", "getSint", "getBool"} -> t \notin IntTypes
    [] op = "getDouble"                         -> t \notin {"Float", "Double"}
    [] op = "getString"      -> t \in {"Struct", "List", "LocString", "Void"}
    [] op = "getLocString"                      -> t # "LocString"
    [] op = "getData"                           -> t # "Void"
    [] op = "getVector"                         -> t # "Vector"
    [] op = "getOrientation"                    -> t # "Orientation"
    [] op = "getStruct"                         -> t # "Struct"
    [] op = "getList"                           -> t # "List"
    [] OTHER                                    -> FALSE

\* The call with the accessor that matches the type of field name of struct s.
MatchingCall(m, s, name) ==
  LET t == Get(m, s, name).type IN
  CASE t \in IntTypes              -> getUint(m, s, name, ZeroU64)
    [] t \in {"Float", "Double"}   -> getDouble(m, s, name, DefDouble)
    [] t \in {"ExoString", "ResRef"} -> getString(m, s, name, DefString)
    [] t = "LocString"             -> getLocString(m, s, name)
    [] t = "Void"                  -> getDataStream(m, s, name)
    [] t = "Vector"                -> getVector(m, s, name)
    [] t = "Orientation"           -> getOrientation(m, s, name)
    [] t = "Struct"                -> getStruct(m, s, name)
    [] t = "List"                  -> getList(m, s, name)
    [] OTHER                       -> Ret(m, <<>>)

\* The step is a call of an accessor on a present field of a type the
\* accessor does not accept.
MismatchedCall ==
  /\ pc = "loaded"
  /\ call'.op # "none"
  /\ call'.field \in DOMAIN _structs'[call'.strct + 1]._fields
  /\ Rejects(call'.op, _structs'[call'.strct + 1]._fields[call'.field].type)

\* After the step, the matching accessor on the same field throws nothing.
MatchingStillWorks ==
  MatchingCall([structs |-> _structs', pos |-> _stream'.pos, exc |-> "", nread |-> 0,
                labels |-> {}], call'.strct, call'.field).outcome # "error"

C6_UnsignedAgree ==
  (CallHas /\ call.op = "getSint" /\ call.outcome = "ok"
     /\ CallField.type \in {"Byte", "Uint16", "Uint32"}) =>
    /\ call.value = getUint(Machine, call.strct, call.field, ZeroU64).value
    /\ call.value = (CASE CallField.type = "Byte"   -> <<0, 0, 0, CallField.data[2] % 256>>
                       [] CallField.type = "Uint16" -> <<0, 0, 0, CallField.data[2]>>
                       [] CallField.type = "Uint32" ->
                            <<0, 0, CallField.data[1], CallField.data[2]>>)

\* The absolute position of an extended field's data.
DataAt(f) == _header.fieldDataOffset + ToNat(f.data)

\* C7: getUint and getSint on a strref field whose size prefix is not 4 throw.
C7_StrRefSizeChecked ==
  (CallHas /\ call.op \in {"getUint", "getSint"} /\ ~LoadThrew
     /\ CallField.type = "StrRef"
     /\ readUint32LE(Data, DataAt(CallField)) # U32(4)) =>
    call.outcome = "error"

\* The step is a call that read the data of an extended field of a struct
\* that was resolved before the call.
ExtendedRead ==
  /\ pc = "loaded"
  /\ call'.op \notin {"none", "hasField"}
  /\ call'.outcome = "ok"
  /\ _structs[call'.strct + 1]._fields # <<>>
  /\ call'.field \in DOMAIN _structs[call'.strct + 1]._fields
  /\ _structs[call'.strct + 1]._fields[call'.field].extended

\* C8: a call that reads an extended field leaves the stream's position
\* where it was before the call.
C8_PositionRestored == [][ExtendedRead => _stream'.pos = _stream.pos]_vars

\* What a call of accessor op on the extended field f returns, read off the
\* stream's bytes at the absolute position DataAt(f).
ValueAt(op, f) ==
  LET p      == DataAt(f)
      u64    == readUint64LE(p)
      ref    == <<0, 0>> \o readUint32LE(Data, p + 4)
      int    == IF f.type = "StrRef" THEN ref ELSE u64
      size   == ToNat(readUint32LE(Data, p))
      floats(n) == [k \in 1..n |-> <<"float", readUint32LE(Data, p + 4 * (k - 1))>>]
  IN
  CASE op \in {"getUint", "getSint"} -> int
    [] op = "getBool"                -> int # ZeroU64
    [] op = "getDouble"              -> <<"double", u64>>
    [] op = "getLocString"           -> <<"locstring", readBytes(Data, p + 4, size)>>
    [] op = "getData"                -> <<"stream", readBytes(Data, p + 4, size)>>
    [] op = "getVector"              -> floats(3)
    [] op = "getOrientation"         -> floats(4)
    [] op = "getString" ->
         CASE f.type = "ExoString"   -> <<"text", Trim(readBytes(Data, p + 4, size))>>
           [] f.type = "ResRef"      ->
                <<"text", Trim(readBytes(Data, p + 1, ByteAt(Data, p)))>>
           [] f.type \in {"Uint64", "StrRef"} -> <<"%lu", int>>
           [] f.type = "Sint64"      -> <<"%ld", int>>
           [] f.type = "Double"      -> <<"%lf", <<"double", u64>>>>
           [] f.type = "Vector"      -> <<"%f/%f/%f", floats(3)>>
           [] f.type = "Orientation" -> <<"%f/%f/%f/%f", floats(4)>>

\* The number of bytes such a call reads.
BytesRead(f) ==
  LET p == DataAt(f) IN
  CASE f.type \in {"Uint64", "Sint64", "Double", "StrRef"} -> 8
    [] f.type \in {"ExoString", "LocString", "Void"} -> 4 + ToNat(readUint32LE(Data, p))
    [] f.type = "ResRef"      -> 1 + ByteAt(Data, p)
    [] f.type = "Vector"      -> 12
    [] f.type = "Orientation" -> 16

\* C9: the value a call returns for an extended field is the one read at
\* fieldDataOffset + inline data word, whatever the stream's position was
\* and whatever calls came before; the read ends right after those bytes.
C9_ReadAtAbsoluteOffset ==
  (CallHas /\ call.op # "hasField" /\ call.outcome = "ok" /\ CallField.extended) =>
    /\ call.value = ValueAt(call.op, CallField)
    /\ _stream.pos = DataAt(CallField) + BytesRead(CallField)

\* C9 witness: with two extended siblings ("a" an exostring at offset 4,
\* "b" a uint64 at offset 8) in the populated top-level struct, a call has
\* read "b" with no resolution of its own.
C9_Witness ==
  /\ call.op = "getUint" /\ call.strct = 0 /\ call.field = kLabelB
  /\ call.nread = 0
  /\ kLabelA \in DOMAIN CallFields
  /\ CallFields[kLabelA] = Field("ExoString", U32(4))
  /\ call.outcome = "ok" /\ call.value = <<0, 7, 0, 26984>>

\* C10: a label is read only at an index below header.labelCount, and the
\* resolution of a field record with a larger label index throws and adds
\* no field.
C10_LabelIndexChecked ==
  /\ \A k \in call.labels : k < _header.labelCount
  /\ \A n \in 1..Len(_structs) : \A name \in DOMAIN _structs[n]._fields :
       \E k \in 0..(_header.labelCount - 1) : name = readLabel(k)

\* C11: wherever the conversion loop stands on a count word n at word i, the
\* assertion that follows holds, (i + 1) + n <= rawLists.size() (in uint32
\* as the code computes it, and in the naturals, so that no index word is
\* read from past the table), and the loop never ends in a failed
\* assertion.
C11_ConversionSafe ==
  /\ (pc = "converting" /\ i < Len(rawLists)) =>
       LET n == rawLists[i + 1] IN
       /\ ~UGt(Add32(U32(i + 1), n), U32(Len(rawLists)))
       /\ n[1] = 0 /\ i + 1 + n[2] <= Len(rawLists)
  /\ (pc = "aborted") => call.op # "none"

\* C12: every iteration of the counting loop moves the scan index forward,
\* so the loop ends after at most rawLists.size() iterations.
C12_ScanAdvances ==
  [][(pc = "counting" /\ pc' = "counting") =>
       (i' > i /\ listCount' <= Len(rawLists))]_vars

\* Every run of the table, scanning from word p, lies inside the table.
RECURSIVE RunsInTable(_, _)
RunsInTable(t, p) ==
  \/ p = Len(t)
  \/ /\ p < Len(t)
     /\ t[p + 1][1] = 0
     /\ p + 1 + t[p + 1][2] <= Len(t)
     /\ RunsInTable(t, p + t[p + 1][2] + 1)

\* C13: after a successful load of a table whose runs lie inside it, every
\* element of every list is a slot of the struct array, and no index word
\* of a run is header.structCount or more (such a table is not loaded).
C13_ListsReferenceStructs ==
  (pc = "loaded" /\ RunsInTable(rawLists, 0)) =>
    /\ \A k \in DOMAIN _lists : \A j \in DOMAIN _lists[k] :
         _lists[k][j] \in 0..(Len(_structs) - 1)
    /\ \A r \in DOMAIN RunsFrom(rawLists, 0) :
         \A j \in DOMAIN RunsFrom(rawLists, 0)[r].items :
           ULt(RunsFrom(rawLists, 0)[r].items[j], U32(_header.structCount))

\* GFFStruct::load of struct s, started from an empty field map, throws
\* nothing.
Resolvable(s) ==
  load([Machine EXCEPT !.structs[s + 1]._fields = <<>>], s).exc = ""

\* C14: a call in which the resolution of the struct's fields threw leaves
\* the struct's field map empty, and no call returns a value or a default
\* on a struct whose resolution throws.
C14_FailedResolutionLeavesEmpty ==
  /\ LoadThrew => CallFields = <<>>
  /\ (call.op # "none" /\ call.outcome = "ok") => Resolvable(call.strct)

====
